---- MODULE Spec2Model ----
(***************************************************************************)
(* Model of crates/ra_proc_macro_srv/src/dylib.rs: locating the registrar  *)
(* symbol of a proc-macro dylib, loading it, and dispatching expansions.   *)
(*                                                                         *)
(* Strings that the code inspects character by character (symbol names)    *)
(* are sequences of one-character strings.  Option<T> is a sequence of     *)
(* length at most one (None == <<>>, Some(x) == <<x>>).  Result<T, E> is a *)
(* record [tag |-> "Ok" | "Err", val |-> ...].                             *)
(***************************************************************************)
EXTENDS Integers, Sequences, FiniteSets, TLC

VARIABLES expander, call, ret, invoked, located, stages, open_libs

vars == <<expander, call, ret, invoked, located, stages, open_libs>>

\* ---------------------------------------------------------------- bounds
MaxSymbols == 2
MaxMacros == 2

\* ------------------------------------------------------- generic helpers
None == <<>>
Some(x) == <<x>>
Ok(v) == [tag |-> "Ok", val |-> v]
Err(e) == [tag |-> "Err", val |-> e]

SeqsUpTo(S, n) == UNION {[1..k -> S] : k \in 0..n}

\* str::contains
contains(s, pat) ==
    \E i \in 0..(Len(s) - Len(pat)) : SubSeq(s, i + 1, i + Len(pat)) = pat

\* str::starts_with
starts_with(s, pat) == Len(s) >= Len(pat) /\ SubSeq(s, 1, Len(pat)) = pat

\* Iterator::flat_map over Option-valued items
RECURSIVE flat_map_name(_)
flat_map_name(xs) ==
    IF xs = <<>> THEN <<>> ELSE Head(xs).name \o flat_map_name(Tail(xs))

\* ------------------------------------------------------ symbol location
NEW_REGISTRAR_SYMBOL ==
    <<"_", "r", "u", "s", "t", "c", "_", "p", "r", "o", "c", "_",
      "m", "a", "c", "r", "o", "_", "d", "e", "c", "l", "s", "_">>

invalid_data_err(e) == [kind |-> "InvalidData", error |-> e]

\* variant: the marker is required at the start of the name
is_derive_registrar_symbol_prefix(symbol) == starts_with(symbol, NEW_REGISTRAR_SYMBOL)

is_derive_registrar_symbol(symbol) == contains(symbol, NEW_REGISTRAR_SYMBOL)

\* Iterator::find(|s| is_derive_registrar_symbol(s)) : the first match, as an Option
RECURSIVE find_from(_, _)
find_from(xs, i) ==
    IF i > Len(xs) THEN None
    ELSE IF is_derive_registrar_symbol(xs[i]) THEN Some(xs[i])
    ELSE find_from(xs, i + 1)

find(xs) == find_from(xs, 1)

\* the closure of the Mach-O branch: drop one leading underscore
mach_strip(name) ==
    IF starts_with(name, <<"_">>) THEN SubSeq(name, 2, Len(name)) ELSE name

mach_names(exports) == [i \in 1..Len(exports) |-> mach_strip(exports[i].name)]

find_registrar_symbol(file) ==
    IF ~file.read_ok THEN Err([kind |-> "Other", error |-> "read failed"])
    ELSE IF ~file.parse_ok THEN Err(invalid_data_err("goblin parse error"))
    ELSE LET object == file.object IN
        CASE object.kind = "Elf" ->
                IF ~object.table_ok THEN Err(invalid_data_err("bad strtab"))
                ELSE Ok(find(object.dynstrtab))
          [] object.kind = "PE" ->
                Ok(find(flat_map_name(object.pe_exports)))
          [] object.kind = "Mach" ->
                IF ~object.table_ok THEN Err(invalid_data_err("bad exports"))
                ELSE Ok(find(mach_names(object.mach_exports)))
          [] OTHER -> Ok(None)

\* --------------------------------------------------------- environment
\* symbol names that occur in the modelled binaries
SymA == NEW_REGISTRAR_SYMBOL \o <<"a">>
SymUA == <<"_">> \o SymA
SymXB == <<"x">> \o NEW_REGISTRAR_SYMBOL \o <<"b">>
SymMain == <<"_", "m", "a", "i", "n">>

SymbolNames == {SymA, SymUA, SymXB, SymMain}

MacroNames == {"Foo", "bar"}
ClientIds == {"First", "PanicString", "PanicUnknown"}

\* the procedures a plugin offers under a name: one that succeeds, and one
\* that panics, with a message under "Foo" and an opaque payload under "bar"
Procedures ==
    {p \in MacroNames \X ClientIds :
        \/ p[2] = "First"
        \/ p[1] = "Foo" /\ p[2] = "PanicString"
        \/ p[1] = "bar" /\ p[2] = "PanicUnknown"}

ProcMacros ==
    {[kind |-> "CustomDerive", trait_name |-> p[1], client |-> p[2]] : p \in Procedures}
    \cup {[kind |-> k, name |-> p[1], client |-> p[2]] :
            k \in {"Bang", "Attr"}, p \in Procedures}


\* the binaries and plugin contents the environment may present at a path
NoObject ==
    [kind |-> "Unknown", table_ok |-> TRUE, dynstrtab |-> <<>>,
     pe_exports |-> <<>>, mach_exports |-> <<>>]

ElfObject(names) == [NoObject EXCEPT !.kind = "Elf", !.dynstrtab = names]
PEObject(exports) == [NoObject EXCEPT !.kind = "PE", !.pe_exports = exports]
MachObject(exports) == [NoObject EXCEPT !.kind = "Mach", !.mach_exports = exports]

Objects ==
    {ElfObject(t) : t \in SeqsUpTo(SymbolNames, MaxSymbols)}
    \cup {PEObject(t) :
            t \in SeqsUpTo([name : {None} \cup {Some(n) : n \in SymbolNames}], MaxSymbols)}
    \cup {MachObject(t) : t \in SeqsUpTo([name : SymbolNames], MaxSymbols)}

NoSuchFile ==
    [exists |-> FALSE, read_ok |-> FALSE, parse_ok |-> FALSE, object |-> NoObject,
     load_ok |-> FALSE, get_ok |-> FALSE, macros |-> <<>>]

BrokenFiles ==
    {[NoSuchFile EXCEPT !.exists = TRUE],
     [NoSuchFile EXCEPT !.exists = TRUE, !.read_ok = TRUE]}
    \cup {[NoSuchFile EXCEPT !.exists = TRUE, !.read_ok = TRUE, !.parse_ok = TRUE,
                             !.object = o] :
            o \in {NoObject,
                   [NoObject EXCEPT !.kind = "MachFat"],
                   [NoObject EXCEPT !.kind = "Elf", !.table_ok = FALSE],
                   [NoObject EXCEPT !.kind = "Mach", !.table_ok = FALSE]}}

\* every symbol table, with a library that fails to load, lacks the symbol at
\* resolution time, or exports an empty registry
LocatorFiles ==
    {[NoSuchFile EXCEPT !.exists = TRUE, !.read_ok = TRUE, !.parse_ok = TRUE,
                        !.object = o, !.load_ok = l[1], !.get_ok = l[2]] :
        o \in Objects, l \in {<<FALSE, FALSE>>, <<TRUE, FALSE>>, <<TRUE, TRUE>>}}

\* one well-formed plugin binary with every registry
PluginFiles ==
    {[NoSuchFile EXCEPT !.exists = TRUE, !.read_ok = TRUE, !.parse_ok = TRUE,
                        !.object = ElfObject(<<SymMain, SymA>>),
                        !.load_ok = TRUE, !.get_ok = TRUE, !.macros = m] :
        m \in SeqsUpTo(ProcMacros, MaxMacros)}

Files == {NoSuchFile} \cup BrokenFiles \cup LocatorFiles \cup PluginFiles

\* ------------------------------------------------------------- loading
Library == "libloading::Library"

load_library(file) ==
    IF file.load_ok THEN Ok(Library) ELSE Err("dlopen failed")

\* Display of an io::Error built by IoError::new is the Display of its payload
to_string(e) == e.error

\* variant: the library stays loaded when the registrar cannot be resolved
open_leak(file) ==
    LET symbol == find_registrar_symbol(file) IN
    IF symbol.tag = "Err" \/ symbol.val = None \/ ~file.load_ok THEN
        [result |-> Err(invalid_data_err("dlopen failed")), located |-> symbol,
         stages |-> IF symbol.tag = "Ok" /\ symbol.val # None
                    THEN <<"find_registrar_symbol", "load_library">>
                    ELSE <<"find_registrar_symbol">>,
         open_libs |-> {}]
    ELSE IF ~file.get_ok THEN
        [result |-> Err(invalid_data_err("dlsym failed")), located |-> symbol,
         stages |-> <<"find_registrar_symbol", "load_library", "get">>,
         open_libs |-> {Library}]
    ELSE
        [result |-> Ok([_lib |-> Library, exported_macros |-> file.macros]),
         located |-> symbol,
         stages |-> <<"find_registrar_symbol", "load_library", "get">>,
         open_libs |-> {Library}]

\* ProcMacroLibraryLibloading::open.  Besides the result, reports the outcome
\* of the locator, the stages that ran, and the handles still loaded.
open(file) ==
    LET symbol == find_registrar_symbol(file) IN
    IF symbol.tag = "Err" THEN
        [result |-> Err(symbol.val), located |-> symbol,
         stages |-> <<"find_registrar_symbol">>, open_libs |-> {}]
    ELSE IF symbol.val = None THEN
        [result |-> Err(invalid_data_err("Cannot find registrar symbol in file")),
         located |-> symbol,
         stages |-> <<"find_registrar_symbol">>, open_libs |-> {}]
    ELSE LET lib == load_library(file) IN
        IF lib.tag = "Err" THEN
            [result |-> Err(invalid_data_err(lib.val)), located |-> symbol,
             stages |-> <<"find_registrar_symbol", "load_library">>,
             open_libs |-> {}]
        ELSE IF ~file.get_ok THEN
            \* `?` returns early and the local `lib` is dropped
            [result |-> Err(invalid_data_err("dlsym failed")), located |-> symbol,
             stages |-> <<"find_registrar_symbol", "load_library", "get", "drop">>,
             open_libs |-> {}]
        ELSE
            [result |-> Ok([_lib |-> lib.val, exported_macros |-> file.macros]),
             located |-> symbol,
             stages |-> <<"find_registrar_symbol", "load_library", "get">>,
             open_libs |-> {lib.val}]

\* ----------------------------------------------------------- expansion
Subtree_default == [delimiter |-> None, token_trees |-> <<>>]
Subtree(delimiter, token_trees) ==
    [delimiter |-> delimiter, token_trees |-> token_trees]

TokenStream_new == [subtree |-> Subtree_default]
TokenStream_with_subtree(subtree) == [subtree |-> subtree]

\* the server handed to every run; its state is opaque here
Rustc_default == "Rustc::default()"

PanicMessage_String(msg) == [variant |-> "String", msg |-> msg]
PanicMessage_Unknown == [variant |-> "Unknown", msg |-> ""]

\* client.run(&SameThread, server, args..): the procedure of a plugin, run
\* behind the bridge, which hands back Result<TokenStream, PanicMessage>
ClientRun(client, server, args) ==
    CASE client = "First" -> Ok(args[1])
      [] client = "PanicString" -> Err(PanicMessage_String("Nothing to expand"))
      [] OTHER -> Err(PanicMessage_Unknown)

\* variant: every failure is reported with the text of the no-match exit
map_subtree_lossy(res) ==
    IF res.tag = "Ok" THEN Ok(res.val.subtree)
    ELSE Err(PanicMessage_String("Nothing to expand"))

\* res.map(|it| it.subtree)
map_subtree(res) == IF res.tag = "Ok" THEN Ok(res.val.subtree) ELSE res

\* one `client.run(..)` arm followed by its `return`
run(i, j, proc_macro, args) ==
    [ret |-> map_subtree(ClientRun(proc_macro.client, Rustc_default, args)),
     invoked |-> <<[lib |-> i, index |-> j, kind |-> proc_macro.kind,
                    server |-> Rustc_default, args |-> args]>>]

\* variant: a failed procedure does not end the scan
RECURSIVE expand_from_retry(_, _, _, _, _, _)
expand_from_retry(libs, i, j, macro_name, parsed_body, parsed_attributes) ==
    IF i > Len(libs) THEN
        [ret |-> Err(PanicMessage_String("Nothing to expand")), invoked |-> <<>>]
    ELSE IF j > Len(libs[i].exported_macros) THEN
        expand_from_retry(libs, i + 1, 1, macro_name, parsed_body, parsed_attributes)
    ELSE LET proc_macro == libs[i].exported_macros[j]
             rest == expand_from_retry(libs, i, j + 1, macro_name, parsed_body,
                                       parsed_attributes)
             key == IF proc_macro.kind = "CustomDerive" THEN proc_macro.trait_name
                    ELSE proc_macro.name
             r == run(i, j, proc_macro,
                      IF proc_macro.kind = "Attr" THEN <<parsed_attributes, parsed_body>>
                      ELSE <<parsed_body>>)
         IN IF key # macro_name THEN rest
            ELSE IF r.ret.tag = "Ok" \/ rest.invoked = <<>> THEN r
            ELSE [ret |-> rest.ret, invoked |-> r.invoked \o rest.invoked]

\* the two nested `for` loops of Expander::expand, from macro j of lib i on
RECURSIVE expand_from(_, _, _, _, _, _)
expand_from(libs, i, j, macro_name, parsed_body, parsed_attributes) ==
    IF i > Len(libs) THEN
        [ret |-> Err(PanicMessage_String("Nothing to expand")), invoked |-> <<>>]
    ELSE IF j > Len(libs[i].exported_macros) THEN
        expand_from(libs, i + 1, 1, macro_name, parsed_body, parsed_attributes)
    ELSE LET proc_macro == libs[i].exported_macros[j] IN
        CASE proc_macro.kind = "CustomDerive" /\ proc_macro.trait_name = macro_name ->
                run(i, j, proc_macro, <<parsed_body>>)
          [] proc_macro.kind = "Bang" /\ proc_macro.name = macro_name ->
                run(i, j, proc_macro, <<parsed_body>>)
          [] proc_macro.kind = "Attr" /\ proc_macro.name = macro_name ->
                run(i, j, proc_macro, <<parsed_attributes, parsed_body>>)
          [] OTHER ->
                expand_from(libs, i, j + 1, macro_name, parsed_body, parsed_attributes)

\* variant: the two streams change places
expand_swapped(self, macro_name, macro_body, attributes) ==
    LET parsed_body == TokenStream_with_subtree(macro_body)
        parsed_attributes ==
            IF attributes = None THEN TokenStream_new
            ELSE TokenStream_with_subtree(attributes[1])
    IN expand_from(self.libs, 1, 1, macro_name, parsed_attributes, parsed_body)

\* Expander::expand
expand(self, macro_name, macro_body, attributes) ==
    LET parsed_body == TokenStream_with_subtree(macro_body)
        parsed_attributes ==
            IF attributes = None THEN TokenStream_new
            ELSE TokenStream_with_subtree(attributes[1])
    IN expand_from(self.libs, 1, 1, macro_name, parsed_body, parsed_attributes)

\* variant: function-like macros are tagged as attribute macros
list_entry_mistag(proc_macro) ==
    CASE proc_macro.kind = "CustomDerive" -> <<proc_macro.trait_name, "CustomDerive">>
      [] OTHER -> <<proc_macro.name, "Attr">>

\* one match arm of Expander::list_macros
list_entry(proc_macro) ==
    CASE proc_macro.kind = "CustomDerive" -> <<proc_macro.trait_name, "CustomDerive">>
      [] proc_macro.kind = "Bang" -> <<proc_macro.name, "FuncLike">>
      [] OTHER -> <<proc_macro.name, "Attr">>

\* variant: entries are pushed at the front
RECURSIVE list_from_front(_, _, _, _)
list_from_front(libs, i, j, result) ==
    IF i > Len(libs) THEN result
    ELSE IF j > Len(libs[i].exported_macros) THEN list_from_front(libs, i + 1, 1, result)
    ELSE list_from_front(libs, i, j + 1,
                         <<list_entry(libs[i].exported_macros[j])>> \o result)

RECURSIVE list_from(_, _, _, _)
list_from(libs, i, j, result) ==
    IF i > Len(libs) THEN result
    ELSE IF j > Len(libs[i].exported_macros) THEN list_from(libs, i + 1, 1, result)
    ELSE list_from(libs, i, j + 1, Append(result, list_entry(libs[i].exported_macros[j])))

\* Expander::list_macros
list_macros(self) == Ok(list_from(self.libs, 1, 1, <<>>))

\* the arguments callers pass to expand
ExpandNames == MacroNames \cup {"missing"}
Body1 == Subtree(None, <<"struct", "S">>)
Body2 == Subtree(Some("Brace"), <<"x">>)
Attr1 == Subtree(Some("Parenthesis"), <<"Debug">>)
Bodies == {Body1, Body2}
Attributes == {None, Some(Attr1)}

\* ------------------------------------------------------------- state
NoExpander == [libs |-> <<>>, live |-> FALSE]
NoCall ==
    [op |-> "none", file |-> NoSuchFile, macro_name |-> "", macro_body |-> <<>>,
     attributes |-> None]
NotLocated == [tag |-> "None", val |-> None]
Panic(msg) == [tag |-> "Panic", val |-> msg]

Init ==
    /\ expander = NoExpander
    /\ call = NoCall
    /\ ret = [tag |-> "None", val |-> None]
    /\ invoked = <<>>
    /\ located = NotLocated
    /\ stages = <<>>
    /\ open_libs = {}

\* Expander::new
New(file) ==
    /\ call.op = "none"
    /\ call' = [NoCall EXCEPT !.op = "new", !.file = file]
    /\ invoked' = <<>>
    /\ IF ~file.exists THEN
            \* canonicalize().expect(..) unwinds
            /\ ret' = Panic("Cannot canonicalize")
            /\ stages' = <<"canonicalize">>
            /\ located' = NotLocated
            /\ UNCHANGED <<expander, open_libs>>
       ELSE LET o == open(file) IN
            /\ stages' = <<"canonicalize">> \o o.stages
            /\ located' = o.located
            /\ open_libs' = o.open_libs
            /\ IF o.result.tag = "Err" THEN
                    /\ ret' = Err(to_string(o.result.val))
                    /\ UNCHANGED expander
               ELSE
                    /\ expander' = [libs |-> <<>> \o <<o.result.val>>, live |-> TRUE]
                    /\ ret' = Ok("Expander")

\* variant: a failed expansion unloads the modules
Expand_poisoning(macro_name, macro_body, attributes) ==
    /\ expander.live
    /\ LET r == expand(expander, macro_name, macro_body, attributes) IN
        /\ ret' = r.ret
        /\ invoked' = r.invoked
        /\ expander' = IF r.ret.tag = "Err" THEN [expander EXCEPT !.libs = <<>>]
                       ELSE expander
    /\ call' = [NoCall EXCEPT !.op = "expand", !.macro_name = macro_name,
                              !.macro_body = macro_body, !.attributes = attributes]
    /\ UNCHANGED <<located, stages, open_libs>>

\* a call of Expander::expand on the loaded Expander
Expand(macro_name, macro_body, attributes) ==
    /\ expander.live
    /\ LET r == expand(expander, macro_name, macro_body, attributes) IN
        /\ ret' = r.ret
        /\ invoked' = r.invoked
    /\ call' = [NoCall EXCEPT !.op = "expand", !.macro_name = macro_name,
                              !.macro_body = macro_body, !.attributes = attributes]
    /\ UNCHANGED <<expander, located, stages, open_libs>>

\* a call of Expander::list_macros on the loaded Expander
ListMacros ==
    /\ expander.live
    /\ ret' = list_macros(expander)
    /\ invoked' = <<>>
    /\ call' = [NoCall EXCEPT !.op = "list_macros"]
    /\ UNCHANGED <<expander, located, stages, open_libs>>

Next ==
    \/ \E file \in Files : New(file)
    \/ \E macro_name \in ExpandNames, macro_body \in Bodies, attributes \in Attributes :
            Expand(macro_name, macro_body, attributes)
    \/ ListMacros

Spec == Init /\ [][Next]_vars


\* ----------------------------------------------------- property helpers
Key(d) == IF d.kind = "CustomDerive" THEN d.trait_name ELSE d.name
KindTag(d) ==
    IF d.kind = "CustomDerive" THEN "CustomDerive"
    ELSE IF d.kind = "Bang" THEN "FuncLike" ELSE "Attr"

Positions(libs) ==
    UNION {{<<i, j>> : j \in 1..Len(libs[i].exported_macros)} : i \in 1..Len(libs)}
Desc(libs, p) == libs[p[1]].exported_macros[p[2]]
Earlier(p, q) == p[1] < q[1] \/ (p[1] = q[1] /\ p[2] < q[2])
MatchesAt(libs, n) == {p \in Positions(libs) : Key(Desc(libs, p)) = n}
FirstMatch(libs, n) ==
    CHOOSE p \in MatchesAt(libs, n) : \A q \in MatchesAt(libs, n) : ~Earlier(q, p)

RECURSIVE Offset(_, _)
Offset(libs, i) ==
    IF i <= 1 THEN 0 ELSE Offset(libs, i - 1) + Len(libs[i - 1].exported_macros)

NotFoundValue == Err([variant |-> "String", msg |-> "Nothing to expand"])
StreamOf(subtree) == [subtree |-> subtree]
EmptyStream == [subtree |-> [delimiter |-> <<>>, token_trees |-> <<>>]]
AttrStreamOf(attributes) ==
    IF attributes = <<>> THEN EmptyStream ELSE StreamOf(attributes[1])
IsExpand == call.op = "expand"
IsNew == call.op = "new"

\* C1: the value returned when nothing matched differs from every value
\* returned when a descriptor matched and its procedure failed.
C1_NotFoundDistinguishable ==
    (IsExpand /\ invoked # <<>> /\ ret.tag = "Err") =>
        \A n \in ExpandNames, b \in Bodies :
            MatchesAt(expander.libs, n) = {} =>
                expand(expander, n, b, None).ret # ret

\* C2: expand invokes at most one procedure, namely the first descriptor in
\* load-then-registry order whose key equals the name, whatever its kind and
\* also when that procedure fails.
C2_FirstMatchOnly ==
    IsExpand =>
        LET m == MatchesAt(expander.libs, call.macro_name) IN
        /\ Len(invoked) <= 1
        /\ (m = {}) = (invoked = <<>>)
        /\ m # {} =>
            /\ <<invoked[1].lib, invoked[1].index>> = FirstMatch(expander.libs, call.macro_name)
            /\ invoked[1].kind = Desc(expander.libs, FirstMatch(expander.libs, call.macro_name)).kind

C2_Witness ==
    /\ IsExpand /\ invoked # <<>> /\ ret.tag = "Err"
    /\ \E q \in MatchesAt(expander.libs, call.macro_name) :
        /\ Earlier(<<invoked[1].lib, invoked[1].index>>, q)
        /\ Desc(expander.libs, q).kind # invoked[1].kind
        /\ Desc(expander.libs, q).client = "First"

\* C3: a CustomDerive or FunctionLike procedure receives the body stream
\* alone and the result does not depend on the attribute argument; an
\* Attribute procedure receives (attribute stream, body stream), the
\* attribute stream being empty when no attribute tokens are given.
C3_ArgumentsByKind ==
    (IsExpand /\ invoked # <<>>) =>
        IF invoked[1].kind \in {"CustomDerive", "Bang"} THEN
            /\ invoked[1].args = <<StreamOf(call.macro_body)>>
            /\ \A a \in Attributes :
                expand(expander, call.macro_name, call.macro_body, a).ret = ret
        ELSE
            invoked[1].args = <<AttrStreamOf(call.attributes), StreamOf(call.macro_body)>>

C3_Witness ==
    /\ IsExpand /\ invoked # <<>> /\ ret.tag = "Ok"
    /\ \/ invoked[1].kind = "CustomDerive" /\ call.attributes # None
       \/ invoked[1].kind = "Attr" /\ call.attributes = None

\* C4: a failure of the invoked procedure is returned with its message or
\* payload unaltered, and a success returns exactly the procedure's output tree.
C4_OutcomePreserved ==
    (IsExpand /\ invoked # <<>>) =>
        LET d == Desc(expander.libs, <<invoked[1].lib, invoked[1].index>>)
            r == ClientRun(d.client, invoked[1].server, invoked[1].args)
        IN  /\ r.tag = "Err" => ret = [tag |-> "Err", val |-> r.val]
            /\ r.tag = "Ok" => ret = [tag |-> "Ok", val |-> r.val.subtree]

C4_Witness ==
    /\ IsExpand /\ invoked # <<>>
    /\ ret = [tag |-> "Err", val |-> [variant |-> "Unknown", msg |-> ""]]

\* C5: loading a path that does not exist returns an error value and
\* produces no Expander, without an uncontrolled fault.
C5_MissingPathReturnsError ==
    (IsNew /\ ~call.file.exists) => (ret.tag = "Err" /\ ~expander.live)

ErrorStrings ==
    {"read failed", "goblin parse error", "bad strtab", "bad exports",
     "Cannot find registrar symbol in file", "dlopen failed", "dlsym failed"}

StageOrder == <<"canonicalize", "find_registrar_symbol", "load_library", "get", "drop">>
IsPrefix(s, t) == Len(s) <= Len(t) /\ SubSeq(t, 1, Len(s)) = s
Ran(stage) == \E k \in 1..Len(stages) : stages[k] = stage

\* C6: the stages of a load run in order, each only after the previous one
\* succeeded; an Expander exists only when all succeeded and then holds one
\* module with the handle and the registry in order; otherwise the result is
\* one error string, no module exists and no handle stays loaded.
C6_LoadAllOrNothing ==
    (IsNew /\ call.file.exists) =>
        LET f == call.file
            all_ok == /\ located.tag = "Ok" /\ located.val # <<>>
                      /\ f.load_ok /\ f.get_ok
        IN  /\ IsPrefix(stages, StageOrder)
            /\ Ran("load_library") => (located.tag = "Ok" /\ Len(located.val) = 1)
            /\ Ran("get") => (Ran("load_library") /\ f.load_ok)
            /\ expander.live = all_ok
            /\ all_ok =>
                /\ ret.tag = "Ok"
                /\ expander.libs = <<[_lib |-> Library, exported_macros |-> f.macros]>>
                /\ open_libs = {Library}
            /\ ~all_ok =>
                /\ ret.tag = "Err" /\ ret.val \in ErrorStrings
                /\ expander.libs = <<>>
                /\ open_libs = {}

C6_Witness ==
    /\ IsNew /\ Ran("get") /\ call.file.load_ok /\ ~call.file.get_ok
    /\ ret.tag = "Err" /\ open_libs = {}

\* C7: list_macros succeeds with one entry per descriptor in load-then-registry
\* order, each entry being the descriptor's key and kind tag.
C7_ListMacros ==
    call.op = "list_macros" =>
        /\ ret.tag = "Ok"
        /\ Len(ret.val) = Cardinality(Positions(expander.libs))
        /\ \A p \in Positions(expander.libs) :
            ret.val[Offset(expander.libs, p[1]) + p[2]]
                = <<Key(Desc(expander.libs, p)), KindTag(Desc(expander.libs, p))>>

C7_Witness ==
    /\ call.op = "list_macros" /\ ret.tag = "Ok" /\ Len(ret.val) = 2
    /\ ret.val[1] = <<"Foo", "FuncLike">> /\ ret.val[2] = <<"Foo", "CustomDerive">>

\* the names a binary carries in the table the locator scans
BinaryNames(object) ==
    CASE object.kind = "Elf" -> object.dynstrtab
      [] object.kind = "PE" -> flat_map_name(object.pe_exports)
      [] OTHER -> [i \in 1..Len(object.mach_exports) |-> object.mach_exports[i].name]
HasMarker(name) == contains(name, NEW_REGISTRAR_SYMBOL)
MarkerIndices(names) == {k \in 1..Len(names) : HasMarker(names[k])}
StripOne(name) ==
    IF Len(name) > 0 /\ name[1] = "_" THEN [i \in 1..(Len(name) - 1) |-> name[i + 1]]
    ELSE name
Scanned(object) ==
    LET names == BinaryNames(object) IN
    IF object.kind = "Mach" THEN [i \in 1..Len(names) |-> StripOne(names[i])]
    ELSE names
Located ==
    /\ IsNew /\ call.file.exists /\ call.file.read_ok /\ call.file.parse_ok
    /\ call.file.object.kind \in {"Elf", "PE", "Mach"}
    /\ call.file.object.table_ok

\* C8 as stated: with exactly one marker symbol the locator returns that name
\* as it appears in the binary, with none it returns not found, in each format.
C8_ExactNameAsInBinary ==
    Located =>
        LET names == BinaryNames(call.file.object) IN
        /\ Cardinality(MarkerIndices(names)) = 1 =>
            located = [tag |-> "Ok", val |-> <<names[CHOOSE k \in MarkerIndices(names) : TRUE]>>]
        /\ MarkerIndices(names) = {} => located = [tag |-> "Ok", val |-> <<>>]

\* C8 amended: ELF and PE names are matched and returned as they appear;
\* Mach-O names first lose one leading underscore, and the name so stripped
\* is what is matched and returned; with no marker symbol the locator returns
\* not found without error in each format.
C8_NameAsScanned ==
    Located =>
        LET names == BinaryNames(call.file.object)
            scanned == Scanned(call.file.object)
        IN
        /\ Cardinality(MarkerIndices(scanned)) = 1 =>
            located = [tag |-> "Ok", val |-> <<scanned[CHOOSE k \in MarkerIndices(scanned) : TRUE]>>]
        /\ MarkerIndices(names) = {} => located = [tag |-> "Ok", val |-> <<>>]

C8_Witness ==
    /\ Located /\ call.file.object.kind = "Mach"
    /\ Cardinality(MarkerIndices(BinaryNames(call.file.object))) = 1
    /\ located.tag = "Ok" /\ located.val # <<>>
    /\ located.val[1] \notin {BinaryNames(call.file.object)[k] :
                                k \in 1..Len(BinaryNames(call.file.object))}

\* the outcome of expand as a function of the descriptors and the arguments
Outcome(libs, c) ==
    IF MatchesAt(libs, c.macro_name) = {} THEN NotFoundValue
    ELSE LET d == Desc(libs, FirstMatch(libs, c.macro_name))
             args == IF d.kind = "Attr"
                     THEN <<AttrStreamOf(c.attributes), StreamOf(c.macro_body)>>
                     ELSE <<StreamOf(c.macro_body)>>
             r == ClientRun(d.client, "Rustc::default()", args)
         IN IF r.tag = "Ok" THEN [tag |-> "Ok", val |-> r.val.subtree] ELSE r

\* C9: calls of expand and list_macros leave the modules and their
\* descriptors as constructed, every invocation gets a fresh session, and the
\* outcome of expand is a function of its arguments alone.
C9_ExpanderUnchanged ==
    [][expander.live =>
        /\ expander' = expander
        /\ open_libs' = open_libs
        /\ \A k \in 1..Len(invoked') : invoked'[k].server = "Rustc::default()"
        /\ call'.op = "expand" => ret' = Outcome(expander.libs, call')]_vars

C9_Witness ==
    /\ IsExpand /\ ret.tag = "Ok" /\ invoked # <<>>
    /\ \E p \in Positions(expander.libs) : Desc(expander.libs, p).client # "First"

\* C10: expand invokes a procedure exactly for the names list_macros reports,
\* the invoked kind is the tag of the first entry with that name, and the
\* not-found exit is taken exactly when no entry has the name.
C10_ExpandAgreesWithList ==
    IsExpand =>
        LET l == list_macros(expander).val
            hits == {k \in 1..Len(l) : l[k][1] = call.macro_name}
        IN  /\ (invoked # <<>>) = (hits # {})
            /\ hits # {} =>
                LET first == CHOOSE k \in hits : \A h \in hits : k <= h IN
                l[first][2] = KindTag([kind |-> invoked[1].kind, name |-> ""])
            /\ (hits = {}) = (invoked = <<>> /\ ret = NotFoundValue)

C10_Witness ==
    /\ IsExpand /\ invoked # <<>> /\ invoked[1].index = 2
    /\ Len(list_macros(expander).val) = 2

====
